---- MODULE Spec2Model ----
(***************************************************************************)
(* Model of the SMS campaign engine of ict_ops_odoo_sms:                   *)
(*   models/sms_campaign.py   campaign life cycle, roster, dispatch loop   *)
(*   models/sms_recipient.py  recipient record, phone normalisation        *)
(*   models/sms_blacklist.py  suppression registry                         *)
(*   models/sms_contact.py    contact directory                            *)
(*   models/sms_gateway_config.py  gateway configurations, send_sms        *)
(*   models/res_partner.py    partner action on the suppression registry   *)
(*                                                                         *)
(* Statements take effect on the record store in program order; a handler  *)
(* that raises leaves behind the writes it made before the raise.          *)
(* Line 178/179 of sms_campaign.py splits the literal 'in_progress' over   *)
(* two lines; it is read as the selection value 'in_progress'.             *)
(* The roster is created with the key 'phone_number' while the recipient   *)
(* model declares 'phone'; both are read as the one phone field.           *)
(* The contact and partner actions create registry entries with the key    *)
(* 'mobile' while the registry model declares 'phone'; read the same way.  *)
(***************************************************************************)
EXTENDS Integers, Sequences, FiniteSets, TLC

(* ------------------------------ bounds -------------------------------- *)
\* number of contact slots of the directory
MaxContacts == 2
\* a send is accepted while sent_count + failed_count plus the number of
\* pending recipients stays within this cap
MaxCount == 3
\* number of gateway configuration records
MaxGateways == 3
\* longest raw phone typed into a form
MaxLen == 3
\* number of times a recipient form is saved
MaxSaves == 2
MaxPieces == 2

(* --------------------------- string helpers --------------------------- *)
\* phones are sequences of one-character strings
Digits == {"0", "1", "2", "3", "4", "5", "6", "7", "8", "9"}
Whitespace == {" "}
CountryCode == <<"+", "2", "5", "4">>
\* the value that stands for a raised ValidationError
InvalidPhone == <<"ValidationError">>

StartsWith(s, c) == Len(s) > 0 /\ s[1] = c

\* re.sub(<class>, '', s): drop every character of the set
RECURSIVE StripChars(_, _)
StripChars(s, cs) ==
    IF s = <<>> THEN <<>>
    ELSE IF Head(s) \in cs THEN StripChars(Tail(s), cs)
         ELSE <<Head(s)>> \o StripChars(Tail(s), cs)

\* re.sub(r'[^\d+]', '', s): keep only the characters of the set
RECURSIVE KeepChars(_, _)
KeepChars(s, cs) ==
    IF s = <<>> THEN <<>>
    ELSE IF Head(s) \in cs THEN <<Head(s)>> \o KeepChars(Tail(s), cs)
         ELSE KeepChars(Tail(s), cs)

\* a phone as the string it stands for
RECURSIVE Text(_)
Text(s) == IF s = <<>> THEN "" ELSE Head(s) \o Text(Tail(s))

(* ------------------------- phone normalisers -------------------------- *)
\* the international branch re-prefixing the number it is given
normalize_phone_Reprefix(phone) ==
    IF phone = <<>> THEN phone
    ELSE LET p == StripChars(phone, Whitespace) IN
         IF StartsWith(p, "+") THEN CountryCode \o Tail(p)
         ELSE IF StartsWith(p, "0") THEN CountryCode \o Tail(p)
         ELSE IF StartsWith(p, "7") \/ StartsWith(p, "1") THEN CountryCode \o p
         ELSE InvalidPhone

\* SmsRecipient.normalize_phone
normalize_phone(phone) ==
    IF phone = <<>> THEN phone
    ELSE LET p == StripChars(phone, Whitespace) IN
         IF StartsWith(p, "+") THEN p
         ELSE IF StartsWith(p, "0") THEN CountryCode \o Tail(p)
         ELSE IF StartsWith(p, "7") \/ StartsWith(p, "1") THEN CountryCode \o p
         ELSE InvalidPhone

\* SMSBlacklist._normalize_phone
bl_normalize_phone(phone) ==
    IF phone = <<>> THEN <<>>
    ELSE LET clean == KeepChars(phone, Digits \cup {"+"}) IN
         IF StartsWith(clean, "+") THEN clean
         ELSE IF StartsWith(clean, "0") THEN CountryCode \o Tail(clean)
         ELSE IF Len(clean) = 9 THEN CountryCode \o clean
         ELSE clean

\* Python's str.strip(): the whitespace at both ends is dropped
RECURSIVE strip(_)
strip(s) ==
    IF s = <<>> THEN s
    ELSE IF Head(s) \in Whitespace THEN strip(Tail(s))
    ELSE IF s[Len(s)] \in Whitespace THEN strip(SubSeq(s, 1, Len(s) - 1))
    ELSE s

\* the number _send_africastalking puts into the request for phone_number
\* (lines 80-88)
gateway_phone(phone_number) ==
    LET phone == strip(phone_number) IN
    IF StartsWith(phone, "+") THEN phone
    ELSE IF StartsWith(phone, "0") THEN CountryCode \o Tail(phone)
    ELSE IF Len(phone) >= 3 /\ SubSeq(phone, 1, 3) = <<"2", "5", "4">>
         THEN <<"+">> \o phone
    ELSE CountryCode \o phone

\* SMSContact._clean_phone
clean_phone(phone) ==
    IF phone = <<>> THEN <<>>
    ELSE LET p == StripChars(phone, {" ", "-", "(", ")"}) IN
         IF StartsWith(p, "0") THEN CountryCode \o Tail(p)
         ELSE IF ~StartsWith(p, "+") THEN CountryCode \o p
         ELSE p

(* ------------------------------ inputs -------------------------------- *)
Contacts == 1..MaxContacts
\* raw mobile numbers typed into the contact form
RawMobiles == { <<"0", "7">>, <<"+", "2", "5", "4", "7">>, <<"0", "1">> }
\* raw numbers handed to the registry operations
RawPhones == { <<"0", "7">>, <<"+", "2", "5", "4", "1">> }
\* spellings of phones handed to the registry and typed into partner forms
RegistryPhones ==
    { <<"0", "7", "1", "2", "3", "4", "5", "6", "7", "8">>,
      <<"7", "1", "2", "3", "4", "5", "6", "7", "8">>,
      <<"+", "2", "5", "4", "7", "1", "2", "3", "4", "5", "6", "7", "8">>,
      <<"0", "7", "1", "2", " ", "3", "4", "5", "6", "7", "8">>,
      <<"2", "5", "4", "7", "1", "2", "3", "4", "5", "6", "7", "8">> }
\* campaign.target_type; for 'department' and 'club' the suffix _unset
\* says that department_id / club_id is empty
Targets == {"all_students", "all_staff", "department", "department_unset",
            "club", "club_unset", "custom"}
TargetType(t) ==
    CASE t \in {"department", "department_unset"} -> "department"
      [] t \in {"club", "club_unset"} -> "club"
      [] OTHER -> t
SelectionMissing(t) == t \in {"department_unset", "club_unset"}
\* campaign.gateway_id at the time of a send: unset, or set to a
\* configuration whose active flag is on or off
Gateways == {"none", "active", "inactive"}
\* campaign.schedule_date at the time of a schedule call
ScheduleDates == {"unset", "past", "future"}
\* what the provider side of one gateway call comes back with: the number
\* listed with status Success, listed with another status, an empty
\* recipient list, an HTTP or transport error; or the configuration has a
\* gateway type send_sms does not know
Responses == {"Success", "Rejected", "NoRecipients", "HTTPError", "Unsupported"}
\* what SmsGatewayConfiguration.send_sms does for one recipient: returns
\* (True, result), returns (False, message), raises
Outcomes == {"ok", "fail", "raise"}
NoArg == "-"
\* the characters of the raw phones typed into a recipient form
PhoneChars == {"+", "0", "7", "2", " ", "a"}
\* raw phones: every string of at most MaxLen characters, and some
\* numbers of full length
PhoneInputs ==
    UNION {[1..n -> PhoneChars] : n \in 0..MaxLen}
      \cup { <<"0", "7", "1", "2", "3", "4", "5", "6", "7", "8">>,
             <<"7", "1", "2", "3", "4", "5", "6", "7", "8">>,
             <<"2", "5", "4", "7", "1", "2", "3", "4", "5", "6", "7", "8">>,
             <<"a", "b", "c">> }

\* static attributes of the contact in slot c
Names == <<"Asha", "Ben", "Caro", "Dan", "Eve">>
ContactName(c) == Names[((c - 1) % 5) + 1]
ContactType(c) == IF c % 2 = 1 THEN "student" ELSE "staff"
ContactStudentId(c) == 100 + c
\* contact 1 belongs to no department, the others to the selected one
InDepartment(c) == c >= 2
\* every contact is a member of the selected club
InClub(c) == TRUE

Absent == [present |-> FALSE]
\* ids of the sms.gateway.configuration records
GatewayIds == 1..MaxGateways

VARIABLES
    status,        \* campaign.status
    sent_count,    \* campaign.sent_count
    failed_count,  \* campaign.failed_count
    recipient_ids, \* campaign.recipient_ids: sequence of recipient records
    contacts,      \* sms.contact table: slot -> record or Absent
    blacklist,     \* sms.blacklist table: set of stored phones
    calls,         \* per recipient: gateway calls made for it (0, 1, 2 = more)
    pc,            \* per worker: position inside action_send
    todo,          \* per worker: pending_recipients still to process
    outcome,       \* per worker: provider response to the gateway call just made
    started,       \* per worker: counters and pending size at send start
    seen,          \* per worker: the counter value read by += before it writes
    last,          \* the most recent handler call: op, argument, result, repeat
    gateways,      \* sms.gateway.configuration table: id -> record or Absent
    typed,         \* the phone a recipient form was filled with
    saved,         \* what normalize_phone returned: first save, second save
    letter         \* one message of the loop: template, recipient fields, text

vars == <<status, sent_count, failed_count, recipient_ids, contacts,
          blacklist, calls, pc, todo, outcome, started, seen, last,
          gateways, typed, saved, letter>>

Workers == {1, 2}
NoStart == [cnt |-> 0, pend |-> 0]

campaignVars == <<status, sent_count, failed_count>>
directoryVars == <<contacts, blacklist>>
workerVars == <<pc, todo, outcome, started, seen>>
otherVars == <<gateways, typed, saved, letter>>


(* ---------------------------- message text ---------------------------- *)
\* the placeholder tokens of action_send, as character sequences
TokenName == <<"{", "n", "a", "m", "e", "}">>
TokenAdmission ==
    <<"{", "a", "d", "m", "i", "s", "s", "i", "o", "n", "_",
      "n", "u", "m", "b", "e", "r", "}">>
TokenStaff == <<"{", "s", "t", "a", "f", "f", "_", "i", "d", "}">>

\* the parts a campaign message is written from
Pieces == {<<"H", "i", " ">>, TokenName, TokenAdmission, TokenStaff}

\* the campaign messages: up to MaxPieces parts
Templates == UNION {[1..n -> Pieces] : n \in 0..MaxPieces}

\* the values a Char field of a recipient holds; <<>> is an unset field
FieldValues == {<<>>, <<"A", "s", "h", "a">>, <<"7">>, TokenStaff}

\* the characters of a message written from the parts ps
RECURSIVE Flatten(_)
Flatten(ps) == IF ps = <<>> THEN <<>> ELSE Head(ps) \o Flatten(Tail(ps))

\* no message is being rendered
NoLetter ==
    [parts |-> <<>>, personalized |-> FALSE, name |-> <<>>,
     admission_number |-> <<>>, staff_id |-> <<>>, done |-> FALSE,
     sent |-> <<>>, personalized_message |-> <<>>]

Letters ==
    [parts : Templates, personalized : BOOLEAN, name : FieldValues,
     admission_number : FieldValues, staff_id : FieldValues, done : {FALSE},
     sent : {<<>>}, personalized_message : {<<>>}]

\* Python's str.replace(old, new): every occurrence of old, left to right,
\* not overlapping
RECURSIVE replace(_, _, _)
replace(s, old, new) ==
    IF Len(s) < Len(old) THEN s
    ELSE IF SubSeq(s, 1, Len(old)) = old
         THEN new \o replace(SubSeq(s, Len(old) + 1, Len(s)), old, new)
         ELSE <<Head(s)>> \o replace(Tail(s), old, new)

\* the three replacements of lines 193-195, one after the other
personalize(message, r) ==
    replace(replace(replace(message, TokenName, r.name),
                    TokenAdmission, r.admission_number),
            TokenStaff, r.staff_id)

(* --------------------------- initial states --------------------------- *)
\* no recipient form is open
NoForm == typed = <<>> /\ saved = <<>>

FreshCampaign ==
    /\ status = "draft"
    /\ sent_count = 0
    /\ failed_count = 0
    /\ recipient_ids = <<>>
    /\ calls = <<>>
    /\ pc = [w \in Workers |-> "idle"]
    /\ todo = [w \in Workers |-> <<>>]
    /\ outcome = [w \in Workers |-> "none"]
    /\ started = [w \in Workers |-> NoStart]
    /\ seen = [w \in Workers |-> 0]
    /\ last = [op |-> "create", arg |-> NoArg, res |-> "ok", rep |-> FALSE]
    /\ gateways = [g \in GatewayIds |-> Absent]

\* the mobile stored for the contact of slot c in a populated directory:
\* SMSContact.create applied to the raw number 0<c>
DigitChars == <<"1", "2", "3", "4", "5", "6", "7", "8", "9">>
SeedMobile(c) == clean_phone(<<"0", DigitChars[c]>>)

\* a new campaign over a populated directory: every slot holds an active,
\* opted-in contact, all mobiles distinct, nothing suppressed
Init ==
    /\ FreshCampaign
    /\ NoForm
    /\ letter = NoLetter
    /\ contacts = [c \in Contacts |->
                     [present |-> TRUE, mobile |-> SeedMobile(c),
                      active |-> TRUE, opt_in |-> TRUE]]
    /\ blacklist = {}

\* a new campaign over an empty directory and an empty registry
InitRoster ==
    /\ FreshCampaign
    /\ NoForm
    /\ letter = NoLetter
    /\ contacts = [c \in Contacts |-> Absent]
    /\ blacklist = {}

\* a recipient form filled with any raw phone, not saved yet
InitPhone ==
    /\ FreshCampaign
    /\ contacts = [c \in Contacts |-> Absent]
    /\ blacklist = {}
    /\ typed \in PhoneInputs
    /\ saved = <<>>
    /\ letter = NoLetter

\* a campaign message and a recipient of its roster, about to be rendered
InitLetter ==
    /\ FreshCampaign
    /\ NoForm
    /\ contacts = [c \in Contacts |-> Absent]
    /\ blacklist = {}
    /\ letter \in Letters

(* ------------------------- contact directory -------------------------- *)
\* the call log: operation, the field it read, its result, and whether it
\* repeats the call made just before it (same operation, same field value,
\* the earlier one successful)
Called(o, a, r) ==
    last' = [op |-> o, arg |-> a, res |-> r,
             rep |-> (last.op = o /\ last.arg = a /\ last.res = "ok")]

\* the records an sms.contact search sees: archived ones are left out
Visible(c) == contacts[c].present /\ contacts[c].active

\* SMSContact.create with _check_mobile
ContactCreate(c, raw) ==
    /\ ~contacts[c].present
    /\ LET m == clean_phone(raw)
           duplicate == \E d \in Contacts : Visible(d) /\ contacts[d].mobile = m
       IN IF m = <<>> \/ duplicate
          THEN /\ Called("contact_create", NoArg, "ValidationError")
               /\ UNCHANGED contacts
          ELSE /\ Called("contact_create", NoArg, "ok")
               /\ contacts' = [contacts EXCEPT ![c] =
                     [present |-> TRUE, mobile |-> m,
                      active |-> TRUE, opt_in |-> TRUE]]
    /\ UNCHANGED <<campaignVars, recipient_ids, blacklist, calls, workerVars>>
    /\ UNCHANGED otherVars

\* write({'active': b}) on a contact: archive or restore it
ContactSetActive(c, b) ==
    /\ contacts[c].present
    /\ contacts[c].active # b
    /\ contacts' = [contacts EXCEPT ![c].active = b]
    /\ Called("contact_active", NoArg, "ok")
    /\ UNCHANGED <<campaignVars, recipient_ids, blacklist, calls, workerVars>>
    /\ UNCHANGED otherVars

\* SMSContact.action_opt_in / action_opt_out
ContactSetOptIn(c, b) ==
    /\ contacts[c].present
    /\ contacts[c].opt_in # b
    /\ contacts' = [contacts EXCEPT ![c].opt_in = b]
    /\ Called("contact_opt", NoArg, "ok")
    /\ UNCHANGED <<campaignVars, recipient_ids, blacklist, calls, workerVars>>
    /\ UNCHANGED otherVars

(* ------------------------ suppression registry ------------------------ *)
\* SMSBlacklist.is_blacklisted
is_blacklisted(phone) == bl_normalize_phone(phone) \in blacklist

\* the entry created without looking for an existing one
add_to_blacklist_NoSearch(raw) ==
    /\ Called("blacklist_add", Text(raw), "ok")
    /\ blacklist' = blacklist \cup {bl_normalize_phone(raw)}
    /\ UNCHANGED <<campaignVars, recipient_ids, contacts, calls, workerVars>>
    /\ UNCHANGED otherVars

\* SMSBlacklist.add_to_blacklist
add_to_blacklist(raw) ==
    /\ LET clean_phone_ == bl_normalize_phone(raw) IN
       IF clean_phone_ \in blacklist
       THEN /\ Called("blacklist_add", Text(raw), "Already blacklisted")
            /\ UNCHANGED blacklist
       ELSE /\ Called("blacklist_add", Text(raw), "ok")
            /\ blacklist' = blacklist \cup {clean_phone_}
    /\ UNCHANGED <<campaignVars, recipient_ids, contacts, calls, workerVars>>
    /\ UNCHANGED otherVars

\* SMSBlacklist.remove_from_blacklist
remove_from_blacklist(raw) ==
    /\ LET clean_phone_ == bl_normalize_phone(raw) IN
       IF clean_phone_ \in blacklist
       THEN /\ Called("blacklist_remove", Text(raw), "ok")
            /\ blacklist' = blacklist \ {clean_phone_}
       ELSE /\ Called("blacklist_remove", Text(raw), "Number not found in blacklist")
            /\ UNCHANGED blacklist
    /\ UNCHANGED <<campaignVars, recipient_ids, contacts, calls, workerVars>>
    /\ UNCHANGED otherVars


\* SMSContact._compute_blacklisted for a contact whose mobile is m; the
\* registry is searched on 'mobile', read as its phone column
compute_blacklisted(m) == clean_phone(m) \in blacklist

\* SMSContact.action_add_to_blacklist: the entry is created with the
\* contact's cleaned mobile under the key 'mobile', read as the phone
\* column; the flag blacklisted is taken as computed on the registry as
\* it stands
contact_add_to_blacklist(c) ==
    /\ contacts[c].present
    /\ IF compute_blacklisted(contacts[c].mobile)
       THEN /\ Called("contact_blacklist", NoArg, "ValidationError")
            /\ UNCHANGED blacklist
       ELSE /\ Called("contact_blacklist", NoArg, "ok")
            /\ blacklist' = blacklist \cup {clean_phone(contacts[c].mobile)}
    /\ UNCHANGED <<campaignVars, recipient_ids, contacts, calls, workerVars,
                   otherVars>>

\* ResPartner.action_add_to_blacklist for a partner whose mobile is m: the
\* entry is created with the mobile as typed
partner_add_to_blacklist(m) ==
    /\ IF m = <<>> \/ is_blacklisted(m)
       THEN /\ Called("partner_blacklist", Text(m), "UserError")
            /\ UNCHANGED blacklist
       ELSE IF m \in blacklist
       THEN /\ Called("partner_blacklist", Text(m), "IntegrityError")
            /\ UNCHANGED blacklist
       ELSE /\ Called("partner_blacklist", Text(m), "ok")
            /\ blacklist' = blacklist \cup {m}
    /\ UNCHANGED <<campaignVars, recipient_ids, contacts, calls, workerVars,
                   otherVars>>

(* ------------------------------- roster ------------------------------- *)
\* the dictionary action_prepare_recipients appends for contact c
RecipientData(c, t) ==
    [name |-> ContactName(c),
     phone |-> contacts[c].mobile,
     admission_number |-> IF TargetType(t) = "all_students" THEN ContactStudentId(c) ELSE 0,
     staff_id |-> IF TargetType(t) = "all_staff" THEN ContactStudentId(c) ELSE 0,
     recipient_type |-> IF TargetType(t) = "all_staff" THEN "staff" ELSE "student"]

\* does the audience of target t contain contact c
Selected(c, t) ==
    /\ Visible(c)
    /\ contacts[c].opt_in
    /\ CASE TargetType(t) = "all_students" -> ContactType(c) = "student"
         [] TargetType(t) = "all_staff" -> ContactType(c) = "staff"
         [] TargetType(t) = "department" -> InDepartment(c)
         [] TargetType(t) = "club" -> InClub(c)
         [] OTHER -> FALSE

\* SMSCampaign._check_not_blacklisted
check_not_blacklisted(phone) == ~is_blacklisted(phone)

\* recipients_data: one dictionary per selected, unsuppressed contact of
\* the slots c..MaxContacts, in search order
RECURSIVE RecipientsData(_, _)
RecipientsData(c, t) ==
    IF c > MaxContacts THEN <<>>
    ELSE IF Selected(c, t) /\ check_not_blacklisted(contacts[c].mobile)
         THEN <<RecipientData(c, t)>> \o RecipientsData(c + 1, t)
         ELSE RecipientsData(c + 1, t)

\* SmsRecipient._check_phone on a new record, with the column defaults
NewRecipient(d) ==
    [name |-> d.name,
     phone |-> normalize_phone(d.phone),
     admission_number |-> d.admission_number,
     staff_id |-> d.staff_id,
     recipient_type |-> d.recipient_type,
     status |-> "pending",
     sent_date |-> FALSE,
     error_message |-> "none",
     retry_count |-> 0]

\* the unique(phone, campaign_id) constraint left out
UniquePhoneCampaign_Off(old, new) == TRUE

\* SmsRecipient._sql_constraints unique(phone, campaign_id), applied to the
\* rows already stored for the campaign (old) and the rows inserted (new)
UniquePhoneCampaign(old, new) ==
    LET rows == old \o new IN
    \A i, j \in 1..Len(rows) : i # j => rows[i].phone # rows[j].phone

\* the old roster kept instead of unlinked
Unlinked_Keep(rs) == rs

\* self.recipient_ids.unlink()
Unlinked(rs) == <<>>

\* self.env['sms.recipient'].create(recipients_data): the rows to insert
NewRecipients(data) == [i \in 1..Len(data) |-> NewRecipient(data[i])]

\* how action_prepare_recipients ends for audience t, the rows kept after
\* the unlink and the rows to insert
PrepareResult(t, kept, new) ==
    IF SelectionMissing(t) THEN "UserError"
    ELSE IF \E i \in 1..Len(new) : new[i].phone = InvalidPhone THEN "ValidationError"
    ELSE IF ~UniquePhoneCampaign(kept, new) THEN "IntegrityError"
    ELSE "ok"

\* SMSCampaign.action_prepare_recipients with target_type/department/club t
action_prepare_recipients(t) ==
    \E kept \in {Unlinked(recipient_ids)} :
    \E new \in {NewRecipients(RecipientsData(1, t))} :
    \E res \in {PrepareResult(t, kept, new)} :
       /\ Called("prepare", t, res)
       /\ recipient_ids' = IF res = "ok" THEN kept \o new ELSE kept
       /\ calls' = [i \in 1..Len(recipient_ids') |-> 0]
       /\ UNCHANGED <<campaignVars, directoryVars, workerVars, otherVars>>

(* ----------------------------- life cycle ----------------------------- *)
\* SMSCampaign.action_schedule, schedule_date holding d
action_schedule(d) ==
    /\ IF d = "unset" \/ recipient_ids = <<>>
       THEN /\ Called("schedule", d, "UserError")
            /\ UNCHANGED status
       ELSE /\ Called("schedule", d, "ok")
            /\ status' = "scheduled"
    /\ UNCHANGED <<sent_count, failed_count, recipient_ids, directoryVars,
                   calls, workerVars>>
    /\ UNCHANGED otherVars

\* SMSCampaign.action_cancel
action_cancel ==
    /\ status' = "cancelled"
    /\ Called("cancel", NoArg, "ok")
    /\ UNCHANGED <<sent_count, failed_count, recipient_ids, directoryVars,
                   calls, workerVars>>
    /\ UNCHANGED otherVars

(* ------------------------------ dispatch ------------------------------ *)
\* SMSCampaign._compute_recipient_count: total_recipients
total_recipients == Len(recipient_ids)

\* the call log while the loop of action_send runs
Stepped == last' = [op |-> "send", arg |-> NoArg, res |-> "running", rep |-> FALSE]

\* the gateway call log of one recipient: 0 calls, 1 call, more than one
Logged(n) == IF n = 0 THEN 1 ELSE 2

\* self.recipient_ids.filtered(lambda r: r.status == 'pending'), as the
\* positions of the pending recipients from position i on
RECURSIVE PendingFrom(_, _)
PendingFrom(rs, i) ==
    IF i > Len(rs) THEN <<>>
    ELSE IF rs[i].status = "pending" THEN <<i>> \o PendingFrom(rs, i + 1)
         ELSE PendingFrom(rs, i + 1)

\* the failed recipients taken into the run beside the pending ones
pending_recipients_OrFailed(rs) ==
    SelectSeq([i \in 1..Len(rs) |-> i],
              LAMBDA i : rs[i].status \in {"pending", "failed"})

pending_recipients(rs) == PendingFrom(rs, 1)

\* the pre-flight checks of action_send, gateway_id holding gw
Preflight(gw) ==
    IF recipient_ids = <<>> THEN "UserError"
    ELSE IF gw = "none" THEN "UserError"
    ELSE "ok"

\* a send refused while the campaign is in_progress
SendBegin_RefusesInProgress(w, gw) ==
    /\ pc[w] = "idle"
    /\ sent_count + failed_count + Len(pending_recipients(recipient_ids))
          <= MaxCount
    /\ IF Preflight(gw) # "ok" \/ status = "in_progress"
       THEN /\ Called("send", gw, "UserError")
            /\ UNCHANGED <<status, workerVars>>
       ELSE /\ Called("send", gw, "running")
            /\ status' = "in_progress"
            /\ todo' = [todo EXCEPT ![w] = pending_recipients(recipient_ids)]
            /\ started' = [started EXCEPT ![w] =
                  [cnt |-> sent_count + failed_count,
                   pend |-> Len(pending_recipients(recipient_ids))]]
            /\ pc' = [pc EXCEPT ![w] = "loop"]
            /\ UNCHANGED <<outcome, seen>>
    /\ UNCHANGED <<sent_count, failed_count, recipient_ids, directoryVars, calls>>
    /\ UNCHANGED otherVars

\* action_send up to the start of the loop (lines 168-181)
SendBegin(w, gw) ==
    /\ pc[w] = "idle"
    /\ sent_count + failed_count + Len(pending_recipients(recipient_ids))
          <= MaxCount
    /\ IF Preflight(gw) # "ok"
       THEN /\ Called("send", gw, Preflight(gw))
            /\ UNCHANGED <<status, workerVars>>
       ELSE /\ Called("send", gw, "running")
            /\ status' = "in_progress"
            /\ todo' = [todo EXCEPT ![w] = pending_recipients(recipient_ids)]
            /\ started' = [started EXCEPT ![w] =
                  [cnt |-> sent_count + failed_count,
                   pend |-> Len(pending_recipients(recipient_ids))]]
            /\ pc' = [pc EXCEPT ![w] = "loop"]
            /\ UNCHANGED <<outcome, seen>>
    /\ UNCHANGED <<sent_count, failed_count, recipient_ids, directoryVars, calls>>
    /\ UNCHANGED otherVars

\* SmsGatewayConfiguration.send_sms / _send_africastalking on the provider
\* response a: (True, result) whenever the response lists a recipient,
\* whatever its status
send_sms(a) ==
    CASE a \in {"Success", "Rejected"} -> "ok"
      [] a \in {"NoRecipients", "HTTPError"} -> "fail"
      [] OTHER -> "raise"

\* one recipient is handed to gateway_id.send_sms (lines 188-202); a is
\* what the provider side answers
SendCall(w, a) ==
    /\ pc[w] = "loop"
    /\ todo[w] # <<>>
    /\ calls' = [calls EXCEPT ![Head(todo[w])] = Logged(@)]
    /\ outcome' = [outcome EXCEPT ![w] = a]
    /\ pc' = [pc EXCEPT ![w] = "write"]
    /\ Stepped
    /\ UNCHANGED <<campaignVars, recipient_ids, directoryVars, todo, started,
                   seen>>
    /\ UNCHANGED otherVars

\* sent_date stamped on every recipient handed over, failed ones too
Written_StampsFailures(r, o) ==
    IF o = "ok"
    THEN [r EXCEPT !.status = "sent", !.sent_date = TRUE]
    ELSE [r EXCEPT !.status = "failed", !.sent_date = TRUE,
                   !.error_message = IF o = "fail" THEN "result" ELSE "exception"]

\* the values recipient.write stores for a gateway outcome (lines 204-222)
Written(r, o) ==
    IF o = "ok"
    THEN [r EXCEPT !.status = "sent", !.sent_date = TRUE]
    ELSE [r EXCEPT !.status = "failed",
                   !.error_message = IF o = "fail" THEN "result" ELSE "exception"]

\* the except branch leaving the recipient as it is
SendWrite_SkipsException(w) ==
    /\ pc[w] = "write"
    /\ recipient_ids' = [recipient_ids EXCEPT ![Head(todo[w])] =
                            IF send_sms(outcome[w]) = "raise" THEN @
                            ELSE Written(@, send_sms(outcome[w]))]
    /\ pc' = [pc EXCEPT ![w] = "count"]
    /\ Stepped
    /\ UNCHANGED <<campaignVars, directoryVars, calls, todo, outcome, started,
                   seen>>
    /\ UNCHANGED otherVars

\* recipient.write({...}) for the recipient just handed to the gateway
SendWrite(w) ==
    /\ pc[w] = "write"
    /\ recipient_ids' = [recipient_ids EXCEPT ![Head(todo[w])] =
                            Written(@, send_sms(outcome[w]))]
    /\ pc' = [pc EXCEPT ![w] = "count"]
    /\ Stepped
    /\ UNCHANGED <<campaignVars, directoryVars, calls, todo, outcome, started,
                   seen>>
    /\ UNCHANGED otherVars

\* the except branch forgetting its failed_count increment
SendCount_SkipsException(w) ==
    /\ pc[w] = "count"
    /\ IF send_sms(outcome[w]) = "ok"
       THEN sent_count' = sent_count + 1 /\ UNCHANGED failed_count
       ELSE IF send_sms(outcome[w]) = "fail"
       THEN failed_count' = failed_count + 1 /\ UNCHANGED sent_count
       ELSE UNCHANGED <<sent_count, failed_count>>
    /\ todo' = [todo EXCEPT ![w] = Tail(@)]
    /\ outcome' = [outcome EXCEPT ![w] = "none"]
    /\ pc' = [pc EXCEPT ![w] = "loop"]
    /\ Stepped
    /\ UNCHANGED <<status, recipient_ids, directoryVars, calls, started, seen>>
    /\ UNCHANGED otherVars

\* the loop left after the first recipient that failed
SendCount_StopsAfterFailure(w) ==
    /\ pc[w] = "count"
    /\ IF send_sms(outcome[w]) = "ok"
       THEN sent_count' = sent_count + 1 /\ UNCHANGED failed_count
       ELSE failed_count' = failed_count + 1 /\ UNCHANGED sent_count
    /\ todo' = [todo EXCEPT ![w] =
                   IF send_sms(outcome[w]) = "ok" THEN Tail(@) ELSE <<>>]
    /\ outcome' = [outcome EXCEPT ![w] = "none"]
    /\ pc' = [pc EXCEPT ![w] = "loop"]
    /\ Stepped
    /\ UNCHANGED <<status, recipient_ids, directoryVars, calls, started, seen>>
    /\ UNCHANGED otherVars

\* self.sent_count += 1 / self.failed_count += 1 (lines 209, 215, 223)
SendCount(w) ==
    /\ pc[w] = "count"
    /\ IF send_sms(outcome[w]) = "ok"
       THEN sent_count' = sent_count + 1 /\ UNCHANGED failed_count
       ELSE failed_count' = failed_count + 1 /\ UNCHANGED sent_count
    /\ todo' = [todo EXCEPT ![w] = Tail(@)]
    /\ outcome' = [outcome EXCEPT ![w] = "none"]
    /\ pc' = [pc EXCEPT ![w] = "loop"]
    /\ Stepped
    /\ UNCHANGED <<status, recipient_ids, directoryVars, calls, started, seen>>
    /\ UNCHANGED otherVars

\* the read half of self.sent_count += 1 / self.failed_count += 1: the
\* worker fetches the field it is about to raise; nothing in action_send
\* locks the campaign row between this read and the write below
SendCountRead(w) ==
    /\ pc[w] = "count"
    /\ seen' = [seen EXCEPT ![w] = IF send_sms(outcome[w]) = "ok"
                                   THEN sent_count ELSE failed_count]
    /\ pc' = [pc EXCEPT ![w] = "add"]
    /\ Stepped
    /\ UNCHANGED <<campaignVars, recipient_ids, directoryVars, calls, todo,
                   outcome, started>>
    /\ UNCHANGED otherVars

\* the write half of the += : the value read, plus one, is stored
SendCountWrite(w) ==
    /\ pc[w] = "add"
    /\ IF send_sms(outcome[w]) = "ok"
       THEN sent_count' = seen[w] + 1 /\ UNCHANGED failed_count
       ELSE failed_count' = seen[w] + 1 /\ UNCHANGED sent_count
    /\ todo' = [todo EXCEPT ![w] = Tail(@)]
    /\ outcome' = [outcome EXCEPT ![w] = "none"]
    /\ seen' = [seen EXCEPT ![w] = 0]
    /\ pc' = [pc EXCEPT ![w] = "loop"]
    /\ Stepped
    /\ UNCHANGED <<status, recipient_ids, directoryVars, calls, started>>
    /\ UNCHANGED otherVars

\* the campaign marked failed when no recipient of the run was sent
SendEnd_FailedWhenNoneSent(w) ==
    /\ pc[w] = "loop"
    /\ todo[w] = <<>>
    /\ status' = IF sent_count = 0 /\ failed_count > 0 THEN "failed" ELSE "completed"
    /\ pc' = [pc EXCEPT ![w] = "idle"]
    /\ started' = [started EXCEPT ![w] = NoStart]
    /\ last' = [op |-> "send", arg |-> NoArg, res |-> "ok", rep |-> FALSE]
    /\ UNCHANGED <<sent_count, failed_count, recipient_ids, directoryVars,
                   calls, todo, outcome, seen>>
    /\ UNCHANGED otherVars

\* the loop is exhausted: self.status = 'completed' (line 225)
SendEnd(w) ==
    /\ pc[w] = "loop"
    /\ todo[w] = <<>>
    /\ status' = "completed"
    /\ pc' = [pc EXCEPT ![w] = "idle"]
    /\ started' = [started EXCEPT ![w] = NoStart]
    /\ last' = [op |-> "send", arg |-> NoArg, res |-> "ok", rep |-> FALSE]
    /\ UNCHANGED <<sent_count, failed_count, recipient_ids, directoryVars,
                   calls, todo, outcome, seen>>
    /\ UNCHANGED otherVars

\* the process running action_send dies inside the loop; the records keep
\* what was written so far
Crash(w) ==
    /\ pc[w] # "idle"
    /\ pc' = [pc EXCEPT ![w] = "idle"]
    /\ todo' = [todo EXCEPT ![w] = <<>>]
    /\ outcome' = [outcome EXCEPT ![w] = "none"]
    /\ started' = [started EXCEPT ![w] = NoStart]
    /\ seen' = [seen EXCEPT ![w] = 0]
    /\ Called("crash", NoArg, "crashed")
    /\ UNCHANGED <<campaignVars, recipient_ids, directoryVars, calls>>
    /\ UNCHANGED otherVars

\* lines 189-202 for one recipient: the text handed to send_sms and the
\* text stored in recipient.personalized_message
Render ==
    /\ ~letter.done
    /\ \E message \in {IF letter.personalized
                        THEN personalize(Flatten(letter.parts), letter)
                        ELSE Flatten(letter.parts)} :
          letter' = [letter EXCEPT !.done = TRUE, !.sent = message,
                                     !.personalized_message = message]
    /\ Called("render", NoArg, "ok")
    /\ UNCHANGED <<campaignVars, recipient_ids, directoryVars, calls,
                   workerVars, gateways, typed, saved>>

(* --------------------------- recipient form --------------------------- *)
\* SmsRecipient._check_phone: rec.phone = self.normalize_phone(rec.phone),
\* on the phone typed at the first save and on the stored phone afterwards
check_phone ==
    /\ Len(saved) < MaxSaves
    /\ saved # <<>> => saved[Len(saved)] # InvalidPhone
    /\ \E out \in {normalize_phone(IF saved = <<>> THEN typed
                                    ELSE saved[Len(saved)])} :
          /\ saved' = Append(saved, out)
          /\ Called("recipient_save", NoArg,
                    IF out = InvalidPhone THEN "ValidationError" ELSE "ok")
    /\ UNCHANGED <<campaignVars, recipient_ids, directoryVars, calls,
                   workerVars, gateways, typed, letter>>

(* ----------------------- gateway configurations ----------------------- *)
\* the records an sms.gateway.configuration search sees: archived ones are
\* left out
GatewayVisible(gs, g) == gs[g].present /\ gs[g].active

\* self.search([('is_default', '=', True), ('id', '!=', record.id)])
other_defaults(gs, record) ==
    {o \in GatewayIds :
        GatewayVisible(gs, o) /\ gs[o].is_default /\ o # record}

\* other_defaults.write({'is_default': False})
ClearDefault(gs, others) ==
    [g \in GatewayIds |->
        IF g \in others THEN [gs[g] EXCEPT !.is_default = FALSE] ELSE gs[g]]

\* SmsGatewayConfiguration._check_default_gateway: for record in self
RECURSIVE check_default_gateway(_, _)
check_default_gateway(gs, self) ==
    IF self = <<>> THEN gs
    ELSE IF gs[Head(self)].is_default
         THEN check_default_gateway(
                  ClearDefault(gs, other_defaults(gs, Head(self))), Tail(self))
         ELSE check_default_gateway(gs, Tail(self))

\* the recordsets a write can be called on: existing records, each once,
\* in any order
RecordSets ==
    {rs \in UNION {[1..n -> GatewayIds] : n \in 1..MaxGateways} :
        /\ \A i, j \in DOMAIN rs : i # j => rs[i] # rs[j]
        /\ \A i \in DOMAIN rs : gateways[rs[i]].present}

\* create({'is_default': d, ...}) of the configuration g
GatewayCreate(g, d) ==
    /\ ~gateways[g].present
    /\ gateways' = check_default_gateway(
          [gateways EXCEPT ![g] =
              [present |-> TRUE, active |-> TRUE, is_default |-> d]], <<g>>)
    /\ Called("gateway_create", NoArg, "ok")
    /\ UNCHANGED <<campaignVars, recipient_ids, directoryVars, calls,
                   workerVars, typed, saved, letter>>

\* self.write({'is_default': d}) on the recordset self
GatewayWrite(self, d) ==
    /\ gateways' = check_default_gateway(
          [g \in GatewayIds |->
              IF \E i \in DOMAIN self : self[i] = g
              THEN [gateways[g] EXCEPT !.is_default = d] ELSE gateways[g]],
          self)
    /\ Called("gateway_write", NoArg, "ok")
    /\ UNCHANGED <<campaignVars, recipient_ids, directoryVars, calls,
                   workerVars, typed, saved, letter>>

\* write({'active': b}) on a configuration: archive or restore it
GatewaySetActive(g, b) ==
    /\ gateways[g].present
    /\ gateways[g].active # b
    /\ gateways' = [gateways EXCEPT ![g].active = b]
    /\ Called("gateway_active", NoArg, "ok")
    /\ UNCHANGED <<campaignVars, recipient_ids, directoryVars, calls,
                   workerVars, typed, saved, letter>>

(* --------------------------- specifications --------------------------- *)
Idle == \A w \in Workers : pc[w] = "idle"

\* one worker serves the requests on the campaign one after the other
Next ==
    \/ Idle /\ \E t \in Targets : action_prepare_recipients(t)
    \/ Idle /\ \E d \in ScheduleDates : action_schedule(d)
    \/ Idle /\ action_cancel
    \/ \E gw \in Gateways : SendBegin(1, gw)
    \/ \E a \in Responses : SendCall(1, a)
    \/ SendWrite(1)
    \/ SendCount(1)
    \/ SendEnd(1)
    \/ Crash(1)

Spec == Init /\ [][Next]_vars

\* the directory and the registry change between roster preparations of a
\* draft campaign
NextRoster ==
    \/ \E c \in Contacts, raw \in RawMobiles : ContactCreate(c, raw)
    \/ \E c \in Contacts, b \in BOOLEAN : ContactSetActive(c, b)
    \/ \E c \in Contacts, b \in BOOLEAN : ContactSetOptIn(c, b)
    \/ \E raw \in RawPhones : add_to_blacklist(raw)
    \/ \E raw \in RawPhones : remove_from_blacklist(raw)
    \/ \E t \in Targets : action_prepare_recipients(t)

SpecRoster == InitRoster /\ [][NextRoster]_vars

\* two workers serve send requests on the same campaign at the same time,
\* their steps interleaved down to the read and the write of a += ; the
\* roster is prepared while no send is running
NextConcurrent ==
    \/ Idle /\ \E t \in Targets : action_prepare_recipients(t)
    \/ \E w \in Workers, gw \in Gateways : SendBegin(w, gw)
    \/ \E w \in Workers, a \in Responses : SendCall(w, a)
    \/ \E w \in Workers : SendWrite(w)
    \/ \E w \in Workers : SendCountRead(w)
    \/ \E w \in Workers : SendCountWrite(w)
    \/ \E w \in Workers : SendEnd(w)

SpecConcurrent == Init /\ [][NextConcurrent]_vars

\* the registry changes between the preparations and the sends of a
\* campaign
NextSuppress ==
    \/ \E raw \in RawPhones : add_to_blacklist(raw)
    \/ \E raw \in RawPhones : remove_from_blacklist(raw)
    \/ Idle /\ \E t \in Targets : action_prepare_recipients(t)
    \/ \E gw \in Gateways : SendBegin(1, gw)
    \/ \E a \in Responses : SendCall(1, a)
    \/ SendWrite(1)
    \/ SendCount(1)
    \/ SendEnd(1)

SpecSuppress == Init /\ [][NextSuppress]_vars

\* a dispatch that dies is invoked again: the roster is left alone while the
\* campaign is in_progress
NextResume ==
    \/ (Idle /\ status # "in_progress")
          /\ \E t \in Targets : action_prepare_recipients(t)
    \/ \E gw \in Gateways : SendBegin(1, gw)
    \/ \E a \in Responses : SendCall(1, a)
    \/ SendWrite(1)
    \/ SendCount(1)
    \/ SendEnd(1)
    \/ Crash(1)

\* the operator invokes the dispatch again for as long as the campaign is
\* in_progress, and the process does not die at the same statement of the
\* loop every time it gets there
ResumeFairness ==
    /\ WF_vars(status = "in_progress" /\ SendBegin(1, "active"))
    /\ SF_vars(\E a \in Responses : SendCall(1, a))
    /\ SF_vars(SendWrite(1))
    /\ SF_vars(SendCount(1))
    /\ SF_vars(SendEnd(1))

SpecResume == Init /\ [][NextResume]_vars /\ ResumeFairness

\* a message is rendered for a recipient
NextPersonalize == Render

SpecPersonalize == InitLetter /\ [][NextPersonalize]_vars

\* gateway configurations are created, written and archived
NextGateway ==
    \/ \E g \in GatewayIds, d \in BOOLEAN : GatewayCreate(g, d)
    \/ \E self \in RecordSets, d \in BOOLEAN : GatewayWrite(self, d)
    \/ \E g \in GatewayIds, b \in BOOLEAN : GatewaySetActive(g, b)

SpecGateway == Init /\ [][NextGateway]_vars

\* the registry is filled and emptied through its three entry points
NextRegistry ==
    \/ \E raw \in RegistryPhones : add_to_blacklist(raw)
    \/ \E raw \in RegistryPhones : remove_from_blacklist(raw)
    \/ \E c \in Contacts : contact_add_to_blacklist(c)
    \/ \E m \in RegistryPhones \cup {<<>>} : partner_add_to_blacklist(m)

SpecRegistry == Init /\ [][NextRegistry]_vars

\* a recipient form is saved, and saved again
NextPhone == check_phone

SpecPhone == InitPhone /\ [][NextPhone]_vars


(* ------------------------------- claims ------------------------------- *)
Failed(r) == r \notin {"ok", "running"}
SendCalled == Idle /\ last'.op = "send"
DispatchFrame ==
    UNCHANGED <<status, sent_count, failed_count, recipient_ids, calls, pc>>

\* C1: a send called on a campaign whose status is in_progress fails, makes
\* no gateway call and leaves status, counters and recipients unchanged.
C1_SendRejectedWhileInProgress ==
    [][(status = "in_progress" /\ SendCalled)
         => (Failed(last'.res) /\ DispatchFrame)]_vars

\* C2: between two roster preparations no recipient is handed to the
\* gateway more than once, whatever sequence of sends and crashes happens.
C2_ContactedAtMostOnce ==
    \A i \in DOMAIN calls : calls[i] <= 1

\* C3: when a dispatch completes no recipient is pending, every recipient
\* is sent or failed, and sent_count + failed_count grew by the number of
\* recipients that were pending when the dispatch started.
C3_DispatchAccountsForPending ==
    [][\A w \in Workers :
         (pc[w] = "loop" /\ pc'[w] = "idle" /\ last'.res = "ok")
           => /\ \A i \in DOMAIN recipient_ids' :
                    recipient_ids'[i].status \in {"sent", "failed"}
              /\ (sent_count' + failed_count') - started[w].cnt
                    = started[w].pend]_vars

\* a dispatch over two recipients has completed, one sent and one failed
C3_Witness ==
    /\ last.op = "send" /\ last.res = "ok"
    /\ status = "completed"
    /\ Len(recipient_ids) >= 2
    /\ sent_count >= 1 /\ failed_count >= 1

\* C4: prepareRoster is accepted only in draft; in every other status it
\* fails and neither deletes nor creates a recipient.
C4_PrepareOnlyInDraft ==
    [][(last'.op = "prepare" /\ status # "draft")
         => (Failed(last'.res) /\ recipient_ids' = recipient_ids)]_vars

\* C5: after a successful prepareRoster no two recipients of the campaign
\* have the same normalized phone and no recipient's phone is in the
\* suppression registry as it stood at preparation time.
C5_RosterUniqueAndUnsuppressed ==
    [][(last'.op = "prepare" /\ last'.res = "ok")
         => /\ \A i, j \in DOMAIN recipient_ids' :
                  i # j => normalize_phone(recipient_ids'[i].phone)
                             # normalize_phone(recipient_ids'[j].phone)
            /\ \A i \in DOMAIN recipient_ids' :
                  /\ recipient_ids'[i].phone \notin blacklist
                  /\ ~is_blacklisted(recipient_ids'[i].phone)]_vars

\* a non-empty roster was prepared while a visible, opted-in contact of
\* the directory was suppressed
C5_Witness ==
    /\ last.op = "prepare" /\ last.res = "ok"
    /\ Len(recipient_ids) >= 1
    /\ \E c \in Contacts :
          /\ Visible(c) /\ contacts[c].opt_in
          /\ is_blacklisted(contacts[c].mobile)

\* C6: a prepareRoster that directly repeats a successful one (same
\* audience, directory and registry untouched in between) succeeds and
\* leaves the roster exactly as the first run made it.
C6_PrepareIdempotent ==
    [][(last'.op = "prepare" /\ last'.rep)
         => (last'.res = "ok" /\ recipient_ids' = recipient_ids)]_vars

\* the second of two successive preparations of a two-recipient roster
C6_Witness ==
    /\ last.op = "prepare" /\ last.rep /\ last.res = "ok"
    /\ Len(recipient_ids) >= 2
    /\ \A i \in DOMAIN recipient_ids : recipient_ids[i].status = "pending"

LegalTransitions ==
    { <<"draft", "scheduled">>, <<"draft", "in_progress">>,
      <<"scheduled", "in_progress">>, <<"in_progress", "completed">>,
      <<"in_progress", "failed">>, <<"draft", "cancelled">>,
      <<"scheduled", "cancelled">> }

\* C7: the campaign status changes only along the legal transitions; in
\* particular completed, failed and cancelled are never left.
C7_OnlyLegalTransitions ==
    [][status' # status => <<status, status'>> \in LegalTransitions]_vars

\* C8: cancel moves the campaign to cancelled from draft or scheduled; in
\* every other status it fails and leaves the status unchanged.
C8_CancelOnlyBeforeDispatch ==
    [][last'.op = "cancel"
         => IF status \in {"draft", "scheduled"}
            THEN status' = "cancelled"
            ELSE Failed(last'.res) /\ status' = status]_vars

\* C9: schedule moves the campaign to scheduled exactly when the status is
\* draft, the roster is non-empty and the schedule date is set and in the
\* future; otherwise it is rejected and the status is unchanged.
C9_ScheduleGuards ==
    [][last'.op = "schedule"
         => IF status = "draft" /\ recipient_ids # <<>> /\ last'.arg = "future"
            THEN status' = "scheduled"
            ELSE Failed(last'.res) /\ status' = status]_vars

\* C10: a send whose roster is empty, whose gateway is unset or whose
\* gateway is not active aborts before any gateway call: status, counters
\* and recipients are unchanged and no dispatch starts.
C10_PreflightAborts ==
    [][(SendCalled /\ (recipient_ids = <<>> \/ last'.arg # "active"))
         => (Failed(last'.res) /\ DispatchFrame)]_vars

\* C11: a send that passed pre-flight and handed at least one recipient to
\* the gateway returns with the campaign completed, however many recipients
\* failed; no step moves the campaign to failed.
C11_CompletedWhateverFailed ==
    [][/\ \A w \in Workers :
            (pc[w] = "loop" /\ pc'[w] = "idle" /\ last'.op = "send"
               /\ started[w].pend >= 1)
              => status' = "completed"
       /\ status' = "failed" => status = "failed"]_vars

\* a dispatch has returned with every recipient of the roster failed
C11_Witness ==
    /\ last.op = "send" /\ last.res = "ok"
    /\ status = "completed"
    /\ sent_count = 0 /\ failed_count >= 2
    /\ Len(recipient_ids) >= 2
    /\ \A i \in DOMAIN recipient_ids : recipient_ids[i].status = "failed"

\* C12: in every reachable state sent_count + failed_count is at most
\* total_recipients.
C12_CountersWithinTotal ==
    sent_count + failed_count <= total_recipients

\* C13: two send calls on the same campaign never both dispatch: while one
\* worker is inside the dispatch loop no other worker is, and no recipient
\* is handed to the gateway twice.
C13_OneDispatchAtATime ==
    /\ \A v, w \in Workers : (pc[v] # "idle" /\ pc[w] # "idle") => v = w
    /\ \A i \in DOMAIN calls : calls[i] # 2

\* C14: no recipient is handed to the gateway while its phone is in the
\* suppression registry, whether the roster was prepared before or after
\* the phone was added.
C14_NoDispatchToSuppressed ==
    [][\A w \in Workers :
         (pc[w] = "loop" /\ pc'[w] = "write")
           => ~is_blacklisted(recipient_ids[Head(todo[w])].phone)]_vars

\* C15: in every reachable state at most one gateway configuration has
\* is_default = true.
C15_AtMostOneDefault ==
    Cardinality({g \in GatewayIds :
                    gateways[g].present /\ gateways[g].is_default}) <= 1

AllDigits(s) == \A i \in DOMAIN s : s[i] \in Digits
Canonical(s) == StartsWith(s, "+") /\ Len(s) >= 2 /\ AllDigits(Tail(s))

\* C16: normalize is idempotent: a phone that normalize accepted is
\* accepted again and returned unchanged.
C16_NormalizeIdempotent ==
    \A i \in 2..Len(saved) :
       saved[i - 1] # InvalidPhone
         => (saved[i] # InvalidPhone /\ saved[i] = saved[i - 1])

\* the trunk-prefixed number 0712345678 saved twice
C16_Witness ==
    /\ typed = <<"0", "7", "1", "2", "3", "4", "5", "6", "7", "8">>
    /\ Len(saved) = 2
    /\ saved[2] = CountryCode \o Tail(typed)

\* C17: normalize returns a canonical '+'-prefixed phone or raises
\* InvalidPhone: a leading 0 is replaced by +254, a bare subscriber number
\* gets +254 prepended, and an input that is empty or has a non-digit
\* character after the prefix raises InvalidPhone.
C17_CanonicalOrInvalid ==
    saved # <<>> =>
      LET out == saved[1]
          p == StripChars(typed, Whitespace)
          body == IF StartsWith(p, "+") THEN Tail(p) ELSE p
      IN /\ out = InvalidPhone \/ Canonical(out)
         /\ (p = <<>> \/ ~AllDigits(body)) => out = InvalidPhone
         /\ (StartsWith(p, "0") /\ AllDigits(p)) => out = CountryCode \o Tail(p)
         /\ ((StartsWith(p, "7") \/ StartsWith(p, "1")) /\ AllDigits(p))
               => out = CountryCode \o p

\* the spellings of RegistryPhones as text, and the spellings that
\* SMSBlacklist._normalize_phone maps to the same phone
RegistryText == [x \in RegistryPhones |-> Text(x)]
SameCanonical ==
    [x \in RegistryPhones |->
        {y \in RegistryPhones : bl_normalize_phone(y) = bl_normalize_phone(x)}]

C19_RegistryCanonical ==
    /\ \A e \in blacklist : Canonical(e)
    /\ \A e, f \in blacklist :
          e # f => bl_normalize_phone(e) # bl_normalize_phone(f)

\* C20: the provider's per-recipient status decides: the recipient just
\* handed over is written sent, and sent_count grows by one, only if the
\* response lists it with status Success; on any other response it is
\* written failed and failed_count grows by one.
C20_ProviderStatusDecides ==
    [][\A w \in Workers :
         /\ (pc[w] = "write" /\ pc'[w] = "count")
              => recipient_ids'[Head(todo[w])].status
                    = IF outcome[w] = "Success" THEN "sent" ELSE "failed"
         /\ (pc[w] = "count" /\ pc'[w] = "loop")
              => IF outcome[w] = "Success"
                 THEN sent_count' = sent_count + 1 /\ failed_count' = failed_count
                 ELSE failed_count' = failed_count + 1 /\ sent_count' = sent_count]_vars

\* the provider responses that stand for a request that could not be
\* completed: HTTP or transport error, exception out of send_sms
TransportFailures == {"HTTPError", "Unsupported"}

\* C21: when the gateway request for a recipient cannot be completed the
\* recipient is written failed with an error message, not left pending.
C21_TransportFailureMarksFailed ==
    [][\A w \in Workers :
         (pc[w] = "write" /\ pc'[w] = "count" /\ outcome[w] \in TransportFailures)
           => /\ recipient_ids'[Head(todo[w])].status = "failed"
              /\ recipient_ids'[Head(todo[w])].error_message # "none"]_vars

\* the request for a recipient raised out of send_sms and the recipient
\* has been written failed with the exception text
C21_Witness ==
    /\ pc[1] = "count"
    /\ outcome[1] = "Unsupported"
    /\ recipient_ids[Head(todo[1])].status = "failed"
    /\ recipient_ids[Head(todo[1])].error_message = "exception"

\* C22: a gateway failure never stops the dispatch loop: after every
\* recipient, whatever its outcome, the loop goes on with the rest, and
\* when the dispatch returns every recipient has been passed to the gateway.
C22_FailureDoesNotStopLoop ==
    [][\A w \in Workers :
         /\ (pc[w] = "count" /\ pc'[w] = "loop") => todo'[w] = Tail(todo[w])
         /\ (pc[w] = "loop" /\ pc'[w] = "idle" /\ last'.res = "ok")
              => \A i \in DOMAIN calls' : calls'[i] >= 1]_vars

\* a dispatch has returned: the first recipient failed, the second was
\* still sent
C22_Witness ==
    /\ last.op = "send" /\ last.res = "ok"
    /\ Len(recipient_ids) = 2
    /\ recipient_ids[1].status = "failed"
    /\ recipient_ids[2].status = "sent"
    /\ calls[2] = 1

C24_NoLostIncrement ==
    [][\A w \in Workers :
         (pc[w] = "add" /\ pc'[w] = "loop")
           => sent_count' + failed_count' = sent_count + failed_count + 1]_vars

\* the recipients the worker w has still to hand to the gateway
InTodo(w, i) == \E k \in DOMAIN todo[w] : todo[w][k] = i

\* C25: a dispatch that is invoked again after every crash ends: a campaign
\* that is in_progress eventually leaves in_progress with every recipient
\* sent or failed; the re-invocation is accepted and takes exactly the
\* recipients that are still pending.
C25_ResumedDispatchEnds ==
    /\ (status = "in_progress")
          ~> (status # "in_progress"
                /\ \A i \in DOMAIN recipient_ids :
                      recipient_ids[i].status \in {"sent", "failed"})
    /\ [][(pc[1] = "idle" /\ status = "in_progress" /\ last'.op = "send"
              /\ last'.arg = "active")
            => /\ pc'[1] = "loop"
               /\ \A i \in DOMAIN recipient_ids :
                     InTodo(1, i)' <=> recipient_ids[i].status = "pending"]_vars

C25_Witness ==
    /\ Idle /\ status = "completed"
    /\ last.op = "send" /\ last.res = "ok"
    /\ Len(recipient_ids) = 2
    /\ \A i \in DOMAIN recipient_ids :
          recipient_ids[i].status \in {"sent", "failed"}
    /\ sent_count + failed_count < Len(recipient_ids)

\* the part p of a template with the field of the letter it stands for
Field(l, p) ==
    CASE p = TokenName -> l.name
      [] p = TokenAdmission -> l.admission_number
      [] p = TokenStaff -> l.staff_id
      [] OTHER -> p

\* the template with each token replaced by the recipient's field
Substituted(l) == Flatten([i \in DOMAIN l.parts |-> Field(l, l.parts[i])])

\* C26: the text sent to and recorded for a recipient is the template with
\* each token replaced by the recipient's field (nothing for an unset
\* field) when personalization is on, and the template unchanged when it
\* is off.
C26_PersonalizedText ==
    letter.done
      => /\ letter.sent = IF letter.personalized THEN Substituted(letter)
                          ELSE Flatten(letter.parts)
         /\ letter.personalized_message = letter.sent

\* C27: the normalizers of the registry, the recipient model, the contact
\* model and the gateway agree: a raw phone that any of them accepts is
\* given the same canonical phone by all four.
C27_NormalizersAgree ==
    (saved # <<>> /\ typed # <<>>)
      => /\ saved[1] = bl_normalize_phone(typed)
         /\ saved[1] = clean_phone(typed)
         /\ saved[1] = gateway_phone(typed)


\* the recipients of the roster whose status is st
WithStatus(st) ==
    Cardinality({i \in DOMAIN recipient_ids : recipient_ids[i].status = st})

\* C28: while no dispatch is running the stored counters agree with the
\* recipients: sent_count is the number of recipients with status sent and
\* failed_count the number with status failed.
C28_CountersMatchRecipients ==
    Idle => /\ sent_count = WithStatus("sent")
            /\ failed_count = WithStatus("failed")


\* C29: a roster preparation that fails (department or club audience with
\* none selected) leaves the recipients prepared before it in place, their
\* statuses unchanged.
C29_FailedPrepareKeepsRoster ==
    [][(last'.op = "prepare" /\ last'.res = "UserError")
         => recipient_ids' = recipient_ids]_vars


====
